---- MODULE Spec2Model ----
(***************************************************************************)
(* fix_ids.py: a batch text rewriter.  fix_id_parsing applies two regular  *)
(* expression substitutions to a text; the driver loop reads every file    *)
(* that glob finds under src/routes, transforms it and writes it back when *)
(* the text changed.  Texts are sequences of one-character strings, so the *)
(* patterns are matched character by character as the re module does.      *)
(***************************************************************************)
EXTENDS Integers, Sequences, FiniteSets, TLC

(***************************************************************************)
(* Bounds of the model.                                                    *)
(***************************************************************************)
\* an input text of fix_id_parsing is the concatenation of at most MaxFrags
\* fragments of Frags
MaxFrags == 3

(***************************************************************************)
(* Helpers on sequences and sets.                                          *)
(***************************************************************************)
Min(S) == CHOOSE m \in S : \A n \in S : m <= n
Max(S) == CHOOSE m \in S : \A n \in S : m >= n

RECURSIVE Concat(_)
Concat(ss) == IF ss = << >> THEN << >> ELSE Head(ss) \o Concat(Tail(ss))

\* the text lit stands in s at position i
LitAt(s, i, lit) ==
    /\ i >= 1
    /\ i + Len(lit) - 1 <= Len(s)
    /\ s[i] = lit[1]
    /\ SubSeq(s, i, i + Len(lit) - 1) = lit

(***************************************************************************)
(* The regular expressions and replacements of fix_id_parsing.             *)
(***************************************************************************)
\* \w, restricted to ASCII
WordChars ==
    { "a", "b", "c", "d", "e", "f", "g", "h", "i", "j", "k", "l", "m",
      "n", "o", "p", "q", "r", "s", "t", "u", "v", "w", "x", "y", "z",
      "A", "B", "C", "D", "E", "F", "G", "H", "I", "J", "K", "L", "M",
      "N", "O", "P", "Q", "R", "S", "T", "U", "V", "W", "X", "Y", "Z",
      "0", "1", "2", "3", "4", "5", "6", "7", "8", "9", "_" }

\* r"const \{ id \} = req\.params;" : every element is a literal character
pattern1 ==
    << "c", "o", "n", "s", "t", " ", "{", " ", "i", "d", " ", "}", " ", "=",
       " ", "r", "e", "q", ".", "p", "a", "r", "a", "m", "s", ";" >>

replacement1 ==
    << "c", "o", "n", "s", "t", " ", "i", "d", " ", "=", " ", "p", "a", "r",
       "s", "e", "I", "n", "t", "(", "r", "e", "q", ".", "p", "a", "r", "a",
       "m", "s", ".", "i", "d", ")", ";", "\n", " ", " ", " ", " ", "i",
       "f", " ", "(", "i", "s", "N", "a", "N", "(", "i", "d", ")", ")", " ",
       "{", "\n", " ", " ", " ", " ", " ", " ", "r", "e", "t", "u", "r",
       "n", " ", "r", "e", "s", ".", "s", "t", "a", "t", "u", "s", "(", "4",
       "0", "0", ")", ".", "j", "s", "o", "n", "(", "{", " ", "s", "u", "c",
       "c", "e", "s", "s", ":", " ", "f", "a", "l", "s", "e", ",", " ", "e",
       "r", "r", "o", "r", ":", " ", "'", "I", "n", "v", "a", "l", "i", "d",
       " ", "I", "D", "'", " ", "}", ")", ";", "\n", " ", " ", " ", " ", "}" >>

\* r"const (\w+Id) = req\.params\.id;" is  pattern2Head (\w+ pattern2Id) pattern2Tail
pattern2Head ==
    << "c", "o", "n", "s", "t", " " >>

pattern2Id ==
    << "I", "d" >>

pattern2Tail ==
    << " ", "=", " ", "r", "e", "q", ".", "p", "a", "r", "a", "m", "s", ".",
       "i", "d", ";" >>

\* the f-string of replacement2 around the two uses of var_name
replacement2Mid ==
    << " ", "=", " ", "p", "a", "r", "s", "e", "I", "n", "t", "(", "r", "e",
       "q", ".", "p", "a", "r", "a", "m", "s", ".", "i", "d", ")", ";",
       "\n", " ", " ", " ", " ", "i", "f", " ", "(", "i", "s", "N", "a",
       "N", "(" >>

replacement2End ==
    << ")", ")", " ", "{", "\n", " ", " ", " ", " ", " ", " ", "r", "e",
       "t", "u", "r", "n", " ", "r", "e", "s", ".", "s", "t", "a", "t", "u",
       "s", "(", "4", "0", "0", ")", ".", "j", "s", "o", "n", "(", "{", " ",
       "s", "u", "c", "c", "e", "s", "s", ":", " ", "f", "a", "l", "s", "e",
       ",", " ", "e", "r", "r", "o", "r", ":", " ", "'", "I", "n", "v", "a",
       "l", "i", "d", " ", "I", "D", "'", " ", "}", ")", ";", "\n", " ",
       " ", " ", " ", "}" >>

\* replacement2 as it would be with the parseInt call forgotten: the
\* assignment stays as it was and only the guard is added
replacement2KeepsAccess(var_name) ==
    pattern2Head \o var_name \o pattern2Tail
        \o SubSeq(replacement2Mid, 28, Len(replacement2Mid))
        \o var_name \o replacement2End

\* replacement2 as it would be with the guard of replacement1 copied: the
\* guard tests id, not var_name
replacement2GuardsId(var_name) ==
    pattern2Head \o var_name \o replacement2Mid \o << "i", "d" >>
        \o replacement2End

replacement2(var_name) ==
    pattern2Head \o var_name \o replacement2Mid \o var_name \o replacement2End

\* length of the match of pattern1 at position i of s, 0 when there is none
match1(s, i) == IF LitAt(s, i, pattern1) THEN Len(pattern1) ELSE 0

\* number of word characters standing in s from position j on
WordRun(s, j) ==
    Min({ k \in j..(Len(s) + 1) : k = Len(s) + 1 \/ s[k] \notin WordChars }) - j

\* group2 for the pattern r"const (\w*Id) = req\.params\.id;"
group2Star(s, i) ==
    IF ~LitAt(s, i, pattern2Head) THEN 0
    ELSE LET j  == i + Len(pattern2Head)
             ok == { n \in 0..WordRun(s, j) :
                        /\ LitAt(s, j + n, pattern2Id)
                        /\ LitAt(s, j + n + Len(pattern2Id), pattern2Tail) }
         IN  IF ok = {} THEN 0 ELSE Max(ok) + Len(pattern2Id)

\* length of group 1 of the match of pattern2 at position i of s, 0 when
\* there is none: \w+ is greedy and gives characters back until Id and the
\* tail follow
group2(s, i) ==
    IF ~LitAt(s, i, pattern2Head) THEN 0
    ELSE LET j  == i + Len(pattern2Head)
             ok == { n \in 1..WordRun(s, j) :
                        /\ LitAt(s, j + n, pattern2Id)
                        /\ LitAt(s, j + n + Len(pattern2Id), pattern2Tail) }
         IN  IF ok = {} THEN 0 ELSE Max(ok) + Len(pattern2Id)

\* re.sub(pattern1, replacement1, s, count=1)
sub1First(s, pos) ==
    LET M == { i \in pos..Len(s) : match1(s, i) > 0 }
    IN  IF M = {} THEN SubSeq(s, pos, Len(s))
        ELSE LET i == Min(M)
             IN  SubSeq(s, pos, i - 1) \o replacement1
                     \o SubSeq(s, i + match1(s, i), Len(s))

\* re.sub(pattern1, replacement1, s) from position pos on: the leftmost
\* match is replaced and the scan goes on behind it
RECURSIVE sub1(_, _)
sub1(s, pos) ==
    LET M == { i \in pos..Len(s) : match1(s, i) > 0 }
    IN  IF M = {} THEN SubSeq(s, pos, Len(s))
        ELSE LET i == Min(M)
             IN  SubSeq(s, pos, i - 1) \o replacement1
                     \o sub1(s, i + match1(s, i))

\* re.sub(pattern2, replacement2, s, count=1)
sub2First(s, pos) ==
    LET M == { i \in pos..Len(s) : group2(s, i) > 0 }
    IN  IF M = {} THEN SubSeq(s, pos, Len(s))
        ELSE LET i == Min(M)
                 g == group2(s, i)
                 b == i + Len(pattern2Head)
             IN  SubSeq(s, pos, i - 1)
                     \o replacement2(SubSeq(s, b, b + g - 1))
                     \o SubSeq(s, b + g + Len(pattern2Tail), Len(s))

\* re.sub(pattern2, replacement2, s) from position pos on
RECURSIVE sub2(_, _)
sub2(s, pos) ==
    LET M == { i \in pos..Len(s) : group2(s, i) > 0 }
    IN  IF M = {} THEN SubSeq(s, pos, Len(s))
        ELSE LET i == Min(M)
                 g == group2(s, i)
                 b == i + Len(pattern2Head)
             IN  SubSeq(s, pos, i - 1)
                     \o replacement2(SubSeq(s, b, b + g - 1))
                     \o sub2(s, b + g + Len(pattern2Tail))

Rule1(content) == sub1(content, 1)
Rule2(content) == sub2(content, 1)

fix_id_parsing(content) == Rule2(Rule1(content))

(***************************************************************************)
(* State.                                                                  *)
(***************************************************************************)
VARIABLES
    \* one call of fix_id_parsing
    input,      \* the argument of the call under way
    text,       \* the local variable content of fix_id_parsing
    mid,        \* content after the first re.sub of the call
    first,      \* what the first call returned
    calls,      \* calls that have returned
    tpc,        \* position in fix_id_parsing: "sub1", "sub2", "ret", "idle"
    \* the script
    fs,         \* file system: path -> text on disk
    linesep,    \* os.linesep of the platform
    files,      \* the list glob returned
    idx,        \* number of files the for loop has taken
    filepath,   \* loop variable
    content,    \* loop body variable
    original,   \* loop body variable
    out,        \* lines printed
    log,        \* file operations attempted, in order
    fs0,        \* the file system at start
    seen,       \* seen[i]: the text read from files[i]
    left,       \* left[i]: the text on disk of files[i] when its status line was printed
    pc          \* position in the script

fixVars == << input, text, mid, first, calls, tpc >>
scriptVars == << fs, linesep, files, idx, filepath, content, original, out,
                 log, fs0, seen, left, pc >>
vars == << input, text, mid, first, calls, tpc, fs, linesep, files, idx,
           filepath, content, original, out, log, fs0, seen, left, pc >>

(***************************************************************************)
(* fix_id_parsing on its own: the input is drawn from Inputs, the two      *)
(* substitutions are applied in the order of the code, and the function is *)
(* called a second time on what it returned.                               *)
(***************************************************************************)
FragRule1 ==
    << "c", "o", "n", "s", "t", " ", "{", " ", "i", "d", " ", "}", " ", "=",
       " ", "r", "e", "q", ".", "p", "a", "r", "a", "m", "s", ";" >>

FragRule2User ==
    << "c", "o", "n", "s", "t", " ", "u", "s", "e", "r", "I", "d", " ", "=",
       " ", "r", "e", "q", ".", "p", "a", "r", "a", "m", "s", ".", "i", "d",
       ";" >>

FragRule2Other ==
    pattern2Head \o << "b", "_", "2", "I", "d" >> \o pattern2Tail

\* id destructured with other spacing
FragNoSpace ==
    << "c", "o", "n", "s", "t", " ", "{", "i", "d", "}", " ", "=", " ", "r",
       "e", "q", ".", "p", "a", "r", "a", "m", "s", ";" >>

\* another field destructured
FragName ==
    << "c", "o", "n", "s", "t", " ", "{", " ", "n", "a", "m", "e", " ", "}",
       " ", "=", " ", "r", "e", "q", ".", "p", "a", "r", "a", "m", "s", ";" >>

\* what follows `const { id }` in the Rule 1 fragment: behind the closing
\* brace of a replacement it is a near miss of pattern1
FragParamsTail ==
    << " ", "=", " ", "r", "e", "q", ".", "p", "a", "r", "a", "m", "s", ";" >>

Frags ==
    { FragRule1, FragRule2User, FragRule2Other, FragNoSpace, FragName,
      pattern2Head, pattern2Id, pattern2Tail, FragParamsTail }

Inputs ==
    { Concat(f) : f \in UNION { [1..n -> Frags] : n \in 0..MaxFrags } }

ScriptIdle ==
    /\ fs = << >> /\ linesep = << >> /\ files = << >> /\ idx = 0
    /\ filepath = << >> /\ content = << >> /\ original = << >>
    /\ out = << >> /\ log = << >> /\ fs0 = << >> /\ seen = << >>
    /\ left = << >> /\ pc = "idle"

InitFix ==
    /\ input \in Inputs
    /\ text = input
    /\ mid = << >>
    /\ first = << >>
    /\ calls = 0
    /\ tpc = "sub1"
    /\ ScriptIdle

\* content = re.sub(pattern1, replacement1, content)
ApplyRule1 ==
    /\ tpc = "sub1"
    /\ text' = Rule1(text)
    /\ mid' = text'
    /\ tpc' = "sub2"
    /\ UNCHANGED << input, first, calls >>
    /\ UNCHANGED scriptVars

\* content = re.sub(pattern2, replacement2, content); return content
ApplyRule2 ==
    /\ tpc = "sub2"
    /\ text' = Rule2(text)
    /\ first' = IF calls = 0 THEN text' ELSE first
    /\ calls' = calls + 1
    /\ tpc' = "ret"
    /\ UNCHANGED << input, mid >>
    /\ UNCHANGED scriptVars

\* the caller passes the result to fix_id_parsing once more
CallAgain ==
    /\ tpc = "ret"
    /\ calls = 1
    /\ input' = text
    /\ mid' = << >>
    /\ tpc' = "sub1"
    /\ UNCHANGED << text, first, calls >>
    /\ UNCHANGED scriptVars

NextFix == ApplyRule1 \/ ApplyRule2 \/ CallAgain

SpecFix == InitFix /\ [][NextFix]_vars

(***************************************************************************)
(* The script: glob, then the for loop over the files found.               *)
(***************************************************************************)
routes_dir == "src/routes"

\* the file name part of the glob pattern f"{routes_dir}/*.ts": * matches
\* any characters, but no leading dot of a file name
globSuffix ==
    << ".", "t", "s" >>

\* globMatch for the pattern f"{routes_dir}/*"
globMatchAnyName(p) ==
    /\ p.dir = routes_dir
    /\ Len(p.name) >= 1
    /\ p.name[1] # "."

globMatch(p) ==
    /\ p.dir = routes_dir
    /\ Len(p.name) >= Len(globSuffix)
    /\ SubSeq(p.name, Len(p.name) - Len(globSuffix) + 1, Len(p.name)) = globSuffix
    /\ p.name[1] # "."

\* the files glob.glob finds in file system f
Discovered(f) == { p \in DOMAIN f : globMatch(p) }

\* the orders in which a directory listing may yield the files of S
Orders(S) ==
    { o \in [1..Cardinality(S) -> S] :
        \A i, j \in 1..Cardinality(S) : o[i] = o[j] => i = j }

\* the files of the modelled file system
RouteA == [dir |-> "src/routes", name |->
    << "a", ".", "t", "s" >>]
RouteB == [dir |-> "src/routes", name |->
    << "b", ".", "t", "s" >>]
NotTs == [dir |-> "src/routes", name |->
    << "c", ".", "m", "d" >>]
Outside == [dir |-> "src/lib", name |->
    << "d", ".", "t", "s" >>]
Hidden == [dir |-> "src/routes", name |->
    << ".", "e", ".", "t", "s" >>]
NoPath == [dir |-> "", name |-> << >>]

AllPaths == { RouteA, RouteB, NotTs, Outside, Hidden }

LF == << "\n" >>
CRLF == << "\r", "\n" >>

\* texts a route file may hold at start
FileContents ==
    { FragRule1 \o LF,
      FragRule2User \o CRLF,
      FragNoSpace \o LF,
      FragName \o CRLF,
      FragRule1 \o LF \o FragRule2Other \o LF }

\* what the files glob does not find hold: text both rules would rewrite
OtherText == FragRule1 \o LF \o FragRule2User \o LF

\* f.read() of a file opened with open(path, 'r'): text mode with universal
\* newlines, "\r\n" and "\r" are read as "\n"
RECURSIVE TextRead(_)
TextRead(b) ==
    LET R == { i \in 1..Len(b) : b[i] = "\r" }
    IN  IF R = {} THEN b
        ELSE LET i == Min(R)
                 n == IF i < Len(b) /\ b[i + 1] = "\n" THEN 2 ELSE 1
             IN  SubSeq(b, 1, i - 1) \o LF
                     \o TextRead(SubSeq(b, i + n, Len(b)))

\* f.write(t) to a file opened with open(path, 'w'): text mode, "\n" is
\* written as os.linesep
RECURSIVE TextWrite(_, _)
TextWrite(t, sep) ==
    LET N == { i \in 1..Len(t) : t[i] = "\n" }
    IN  IF N = {} THEN t
        ELSE LET i == Min(N)
             IN  SubSeq(t, 1, i - 1) \o sep
                     \o TextWrite(SubSeq(t, i + 1, Len(t)), sep)

\* open(p, 'w'): the file is created when missing and truncated
OpenW(f, p) ==
    [q \in DOMAIN f \cup {p} |-> IF q = p THEN << >> ELSE f[q]]

\* the comparison left out: every file is written back
ChangedAlways(c, o) == TRUE

\* if content != original
Changed(c, o) == c # o

Line(k, p) == [kind |-> k, path |-> p]
Op(o, p, ok) == [op |-> o, path |-> p, ok |-> ok]

Init ==
    /\ fs \in { f \in [AllPaths -> FileContents \cup {OtherText}] :
                  \A p \in AllPaths : ~globMatch(p) <=> f[p] = OtherText }
    /\ fs0 = fs
    /\ linesep \in { LF, CRLF }
    /\ files = << >>
    /\ idx = 0
    /\ filepath = NoPath
    /\ content = << >>
    /\ original = << >>
    /\ out = << >>
    /\ log = << >>
    /\ seen = << >>
    /\ left = << >>
    /\ pc = "glob"
    /\ input = << >> /\ text = << >> /\ mid = << >> /\ first = << >>
    /\ calls = 0 /\ tpc = "idle"

\* files = glob.glob(f"{routes_dir}/*.ts")
Glob ==
    /\ pc = "glob"
    /\ files' \in Orders(Discovered(fs))
    /\ pc' = "for"
    /\ UNCHANGED << fs, linesep, idx, filepath, content, original, out, log,
                    fs0, seen, left >>
    /\ UNCHANGED fixVars

\* for filepath in files: print(f"Processing {filepath}...")
ForNext ==
    /\ pc = "for"
    /\ idx < Len(files)
    /\ idx' = idx + 1
    /\ filepath' = files[idx + 1]
    /\ out' = Append(out, Line("Processing", filepath'))
    /\ pc' = "read"
    /\ UNCHANGED << fs, linesep, files, content, original, log, fs0, seen,
                    left >>
    /\ UNCHANGED fixVars

\* with open(filepath, 'r') as f: content = f.read()
ReadOk ==
    /\ pc = "read"
    /\ filepath \in DOMAIN fs
    /\ content' = TextRead(fs[filepath])
    /\ seen' = Append(seen, content')
    /\ log' = Append(log, Op("read", filepath, TRUE))
    /\ pc' = "fix"
    /\ UNCHANGED << fs, linesep, files, idx, filepath, original, out, fs0,
                    left >>
    /\ UNCHANGED fixVars

\* ReadFail as it would be with the error caught and the file skipped
ReadFailSkips ==
    /\ pc = "read"
    /\ log' = Append(log, Op("read", filepath, FALSE))
    /\ pc' = "for"
    /\ UNCHANGED << fs, linesep, files, idx, filepath, content, original,
                    out, fs0, seen, left >>
    /\ UNCHANGED fixVars

\* open or read raises (permission, decoding): nothing catches it
ReadFail ==
    /\ pc = "read"
    /\ log' = Append(log, Op("read", filepath, FALSE))
    /\ pc' = "aborted"
    /\ UNCHANGED << fs, linesep, files, idx, filepath, content, original,
                    out, fs0, seen, left >>
    /\ UNCHANGED fixVars

\* original = content; content = fix_id_parsing(content)
Fix ==
    /\ pc = "fix"
    /\ original' = content
    /\ content' = fix_id_parsing(content)
    /\ pc' = "cmp"
    /\ UNCHANGED << fs, linesep, files, idx, filepath, out, log, fs0, seen,
                    left >>
    /\ UNCHANGED fixVars

\* if content != original: with open(filepath, 'w') as f:
OpenWriteOk ==
    /\ pc = "cmp"
    /\ Changed(content, original)
    /\ fs' = OpenW(fs, filepath)
    /\ log' = Append(log, Op("open_w", filepath, TRUE))
    /\ pc' = "write"
    /\ UNCHANGED << linesep, files, idx, filepath, content, original, out,
                    fs0, seen, left >>
    /\ UNCHANGED fixVars

\* open(filepath, 'w') raises: the file is as it was
OpenWriteFail ==
    /\ pc = "cmp"
    /\ Changed(content, original)
    /\ log' = Append(log, Op("open_w", filepath, FALSE))
    /\ pc' = "aborted"
    /\ UNCHANGED << fs, linesep, files, idx, filepath, content, original,
                    out, fs0, seen, left >>
    /\ UNCHANGED fixVars

\* f.write(content), and the file is closed
WriteOk ==
    /\ pc = "write"
    /\ fs' = [fs EXCEPT ![filepath] = TextWrite(content, linesep)]
    /\ log' = Append(log, Op("write", filepath, TRUE))
    /\ pc' = "fixed"
    /\ UNCHANGED << linesep, files, idx, filepath, content, original, out,
                    fs0, seen, left >>
    /\ UNCHANGED fixVars

\* f.write or the close raises: the truncated file holds none or a part of
\* the new text
WriteFail ==
    /\ pc = "write"
    /\ \E k \in { 0, Len(TextWrite(content, linesep)) \div 2 } :
          fs' = [fs EXCEPT ![filepath] =
                     SubSeq(TextWrite(content, linesep), 1, k)]
    /\ log' = Append(log, Op("write", filepath, FALSE))
    /\ pc' = "aborted"
    /\ UNCHANGED << linesep, files, idx, filepath, content, original, out,
                    fs0, seen, left >>
    /\ UNCHANGED fixVars

\* print(f"  Fixed {filepath}")
PrintFixed ==
    /\ pc = "fixed"
    /\ out' = Append(out, Line("Fixed", filepath))
    /\ left' = Append(left, fs[filepath])
    /\ pc' = "for"
    /\ UNCHANGED << fs, linesep, files, idx, filepath, content, original,
                    log, fs0, seen >>
    /\ UNCHANGED fixVars

\* PrintNoChange as it would be with the Fixed line printed in both branches
PrintNoChangeSaysFixed ==
    /\ pc = "cmp"
    /\ ~Changed(content, original)
    /\ out' = Append(out, Line("Fixed", filepath))
    /\ left' = Append(left, fs[filepath])
    /\ pc' = "for"
    /\ UNCHANGED << fs, linesep, files, idx, filepath, content, original,
                    log, fs0, seen >>
    /\ UNCHANGED fixVars

\* else: print(f"  No changes needed for {filepath}")
PrintNoChange ==
    /\ pc = "cmp"
    /\ ~Changed(content, original)
    /\ out' = Append(out, Line("NoChange", filepath))
    /\ left' = Append(left, fs[filepath])
    /\ pc' = "for"
    /\ UNCHANGED << fs, linesep, files, idx, filepath, content, original,
                    log, fs0, seen >>
    /\ UNCHANGED fixVars

\* the loop is over: print("\n Done!")
PrintDone ==
    /\ pc = "for"
    /\ idx = Len(files)
    /\ out' = Append(out, Line("Done", NoPath))
    /\ pc' = "done"
    /\ UNCHANGED << fs, linesep, files, idx, filepath, content, original,
                    log, fs0, seen, left >>
    /\ UNCHANGED fixVars

Next ==
    \/ Glob
    \/ ForNext
    \/ ReadOk
    \/ ReadFail
    \/ Fix
    \/ OpenWriteOk
    \/ OpenWriteFail
    \/ WriteOk
    \/ WriteFail
    \/ PrintFixed
    \/ PrintNoChange
    \/ PrintDone

Spec == Init /\ [][Next]_vars

(***************************************************************************)
(* The texts the properties speak of, written out independently of the     *)
(* patterns above.                                                         *)
(***************************************************************************)
DestructureId ==
    << "c", "o", "n", "s", "t", " ", "{", " ", "i", "d", " ", "}", " ", "=",
       " ", "r", "e", "q", ".", "p", "a", "r", "a", "m", "s", ";" >>

ConstKeyword ==
    << "c", "o", "n", "s", "t", " " >>

ParamAccess ==
    << " ", "=", " ", "r", "e", "q", ".", "p", "a", "r", "a", "m", "s", ".",
       "i", "d", ";" >>

ParseIntAssign ==
    << " ", "=", " ", "p", "a", "r", "s", "e", "I", "n", "t", "(", "r", "e",
       "q", ".", "p", "a", "r", "a", "m", "s", ".", "i", "d", ")", ";" >>

GuardOpen ==
    << "i", "f", " ", "(", "i", "s", "N", "a", "N", "(" >>

GuardClose ==
    << ")", ")", " ", "{" >>

Return400 ==
    << "r", "e", "t", "u", "r", "n", " ", "r", "e", "s", ".", "s", "t", "a",
       "t", "u", "s", "(", "4", "0", "0", ")", ".", "j", "s", "o", "n", "(",
       "{", " ", "s", "u", "c", "c", "e", "s", "s", ":", " ", "f", "a", "l",
       "s", "e", ",", " ", "e", "r", "r", "o", "r", ":", " ", "'", "I", "n",
       "v", "a", "l", "i", "d", " ", "I", "D", "'", " ", "}", ")", ";" >>

Indent4 == << " ", " ", " ", " " >>
Indent6 == << " ", " ", " ", " ", " ", " " >>
IdName == << "i", "d" >>

\* const V = parseInt(req.params.id); followed by the isNaN(V) guard
Rewritten(V) ==
    ConstKeyword \o V \o ParseIntAssign \o LF
        \o Indent4 \o GuardOpen \o V \o GuardClose \o LF
        \o Indent6 \o Return400 \o LF
        \o Indent4 \o << "}" >>

\* V is <one or more word characters>Id
IsIdName(V) ==
    /\ Len(V) >= 3
    /\ \A k \in 1..Len(V) : V[k] \in WordChars
    /\ V[Len(V) - 1] = "I"
    /\ V[Len(V)] = "d"

Contains(s, lit) == \E i \in 1..Len(s) : LitAt(s, i, lit)

Occurrence(i, n, V) == [pos |-> i, len |-> n, name |-> V]

\* the occurrences of `const { id } = req.params;` in s
Occ1(s) ==
    { Occurrence(i, Len(DestructureId), IdName) :
        i \in { j \in 1..Len(s) : LitAt(s, j, DestructureId) } }

\* the occurrences of `const V = req.params.id;` in s, V an Id name
Occ2(s) ==
    UNION { { Occurrence(i, Len(ConstKeyword) + n + Len(ParamAccess),
                         SubSeq(s, i + Len(ConstKeyword),
                                i + Len(ConstKeyword) + n - 1)) :
                n \in { m \in 3..(Len(s) - i - Len(ConstKeyword) + 1) :
                          /\ IsIdName(SubSeq(s, i + Len(ConstKeyword),
                                             i + Len(ConstKeyword) + m - 1))
                          /\ LitAt(s, i + Len(ConstKeyword) + m, ParamAccess) } } :
            i \in { j \in 1..Len(s) : LitAt(s, j, ConstKeyword) } }

\* s with every occurrence of O rewritten, the last one first
RECURSIVE RewriteAll(_, _)
RewriteAll(s, O) ==
    IF O = {} THEN s
    ELSE LET o == CHOOSE q \in O : \A r \in O : r.pos <= q.pos
         IN  RewriteAll(SubSeq(s, 1, o.pos - 1) \o Rewritten(o.name)
                            \o SubSeq(s, o.pos + o.len, Len(s)),
                        O \ {o})

Range(q) == { q[i] : i \in 1..Len(q) }
LogOf(p) == SelectSeq(log, LAMBDA e : e.path = p)
OpsOf(p, o) == SelectSeq(log, LAMBDA e : e.path = p /\ e.op = o)
HasFailed == \E k \in 1..Len(log) : ~log[k].ok

(***************************************************************************)
(* Properties of fix_id_parsing, checked under SpecFix.                    *)
(***************************************************************************)

\* C1: fix_id_parsing is idempotent: calling it on its own result returns
\* that result unchanged.
C1_Idempotent == (tpc = "ret" /\ calls = 2) => text = first

\* C1 witness: the second call has returned on a text in which the first
\* call rewrote an occurrence of each rule.
C1_Witness ==
    /\ tpc = "ret" /\ calls = 2
    /\ Contains(first, Rewritten(IdName))
    /\ \E o \in Occ2(FragRule2User) : Contains(first, Rewritten(o.name))

\* C3: a text with no occurrence of `const { id } = req.params;` and none of
\* `const <word>Id = req.params.id;` is returned unchanged (and every step of
\* the call is defined).
C3_NoOpOnAbsence ==
    (Occ1(input) = {} /\ Occ2(input) = {}) => (text = input /\ tpc # "error")

\* C3 witness: a call has returned on a text without occurrences that holds
\* the near miss `const Id = req.params.id;`.
C3_Witness ==
    /\ tpc = "ret" /\ calls = 1
    /\ Occ1(input) = {} /\ Occ2(input) = {}
    /\ Contains(input, ConstKeyword \o << "I", "d" >> \o ParamAccess)

\* C4: Rule 2 rewrites `const V = req.params.id;` to the parseInt assignment
\* and the guard, both naming V; with several occurrences each one gets the
\* guard of its own name.
C4_Rule2Parameterized ==
    tpc = "ret" =>
        /\ text = RewriteAll(mid, Occ2(mid))
        /\ \A o \in Occ2(input) :
              (o.pos = 1 /\ o.len = Len(input)) => text = Rewritten(o.name)

\* C4 witness: Rule 2 has rewritten two occurrences with different names.
C4_Witness ==
    /\ tpc = "ret" /\ calls = 1
    /\ Cardinality({ o.name : o \in Occ2(mid) }) >= 2

\* C5: Rule 1 replaces every occurrence of `const { id } = req.params;` by
\* the rewritten form for id and changes nothing else.
C5_Rule1Exact ==
    tpc \in {"sub2", "ret"} => mid = RewriteAll(input, Occ1(input))

\* C5 witness: Rule 1 has run on a text that holds the fragment, the same
\* destructuring without spaces and a destructuring of another field.
C5_Witness ==
    /\ tpc = "sub2" /\ calls = 0
    /\ Occ1(input) # {}
    /\ Contains(input, FragNoSpace)
    /\ Contains(input, FragName)

\* C6: one call rewrites the occurrences of both rules, each to its own
\* replacement, and every Rule 2 occurrence of the input is still there,
\* with its name, after Rule 1.
C6_BothRewritten ==
    tpc = "ret" =>
        /\ text = RewriteAll(input, Occ1(input) \cup Occ2(input))
        /\ Cardinality(Occ2(mid)) = Cardinality(Occ2(input))
        /\ \A o \in Occ2(input) :
              LET shift == Cardinality({ q \in Occ1(input) : q.pos < o.pos })
                               * (Len(Rewritten(IdName)) - Len(DestructureId))
              IN  Occurrence(o.pos + shift, o.len, o.name) \in Occ2(mid)

\* C6 witness: a call has returned on a text with a Rule 2 occurrence before
\* and another after a Rule 1 occurrence.
C6_Witness ==
    /\ tpc = "ret" /\ calls = 1
    /\ \E a, b \in Occ2(input) : \E o \in Occ1(input) :
          a.pos < o.pos /\ o.pos < b.pos

(***************************************************************************)
(* Properties of the script, checked under Spec.                           *)
(***************************************************************************)

\* C2: a file is opened for writing if and only if fix_id_parsing changes
\* the text read from it; a file whose text it does not change is not
\* written and holds on disk what it held at start.
C2_WriteSkip ==
    \A i \in 1..Len(seen) :
        LET p == files[i]
            differs == fix_id_parsing(seen[i]) # seen[i]
        IN  /\ Len(OpsOf(p, "open_w")) > 0 => differs
            /\ (i <= Len(left) /\ differs) => Len(OpsOf(p, "open_w")) > 0
            /\ ~differs => /\ Len(OpsOf(p, "write")) = 0
                           /\ fs[p] = fs0[p]

\* C2 witness: the run is over, one file was written and another, whose
\* text fix_id_parsing leaves as it is, was not.
C2_Witness ==
    /\ pc = "done"
    /\ \E i, j \in 1..Len(seen) :
          /\ fix_id_parsing(seen[i]) = seen[i]
          /\ Len(LogOf(files[i])) = 1
          /\ fix_id_parsing(seen[j]) # seen[j]
          /\ Len(OpsOf(files[j], "open_w")) = 1

\* C7: without I/O failure the output is, file by file in loop order, the
\* Processing line of the file and then its one status line, Fixed exactly
\* when the file was written; the Done line comes once, last, after the
\* status line of the last file.
C7_OutputOrder ==
    ~HasFailed =>
        /\ \A i \in 1..Len(files) :
              /\ 2 * i - 1 <= Len(out) =>
                    out[2 * i - 1] = Line("Processing", files[i])
              /\ 2 * i <= Len(out) =>
                    /\ out[2 * i].kind \in {"Fixed", "NoChange"}
                    /\ out[2 * i].path = files[i]
                    /\ out[2 * i].kind = "Fixed"
                          <=> Len(OpsOf(files[i], "write")) > 0
        /\ Len(out) <= 2 * Len(files) + 1
        /\ pc = "done" <=> Len(out) = 2 * Len(files) + 1
        /\ pc = "done" => out[Len(out)].kind = "Done"
        /\ pc = "for" => Len(out) = 2 * idx
        /\ pc \in {"read", "fix", "cmp", "write", "fixed"} =>
              Len(out) = 2 * idx - 1

\* C7 witness: a run without failure is over and printed a Fixed and a
\* No changes needed line.
C7_Witness ==
    /\ pc = "done" /\ ~HasFailed
    /\ \E i, j \in 1..Len(out) : out[i].kind = "Fixed" /\ out[j].kind = "NoChange"

\* the state an I/O failure leaves
AbortedState ==
    /\ pc = "aborted"
    /\ ~log[Len(log)].ok
    /\ \A k \in 1..(Len(log) - 1) : log[k].ok
    /\ log[Len(log)].path = files[idx]
    /\ \A k \in 1..Len(out) : out[k].kind # "Done"
    /\ \A j \in 1..Len(files) :
          /\ j > idx => /\ Len(LogOf(files[j])) = 0
                        /\ fs[files[j]] = fs0[files[j]]
          /\ j < idx => /\ j <= Len(left)
                        /\ fs[files[j]] = left[j]
          /\ \A o \in {"read", "open_w", "write"} : Len(OpsOf(files[j], o)) <= 1

\* C8: a failing read or write is not caught: the run is over at that point
\* (no further step, no retry), later files are not touched, Done is not
\* printed and the files processed before keep what their processing left.
C8_FailureAborts ==
    /\ [](HasFailed => AbortedState)
    /\ [][~HasFailed]_vars

\* C8 witness: the write of the second file failed after the first file
\* had been rewritten.
C8_Witness ==
    /\ pc = "aborted" /\ idx = 2
    /\ log[Len(log)] = Op("write", files[2], FALSE)
    /\ Len(OpsOf(files[1], "write")) = 1
    /\ fs[files[1]] # fs0[files[1]]

ReadsOf(p) == Len(OpsOf(p, "read"))

\* where the operation o on p stands in the log, 0 when it does not
PosOf(p, o) ==
    LET K == { k \in 1..Len(log) : log[k].path = p /\ log[k].op = o }
    IN  IF K = {} THEN 0 ELSE Min(K)

\* the file name ends in .ts
EndsInTs(name) ==
    /\ Len(name) >= 3
    /\ SubSeq(name, Len(name) - 2, Len(name)) = << ".", "t", "s" >>

\* what C9 says of every run but the number of reads
LifecycleFrame ==
    /\ \A p \in Range(files) :
          /\ Len(OpsOf(p, "open_w")) <= 1
          /\ Len(OpsOf(p, "write")) <= 1
          /\ PosOf(p, "open_w") > 0 =>
                (PosOf(p, "read") > 0 /\ PosOf(p, "read") < PosOf(p, "open_w"))
    /\ DOMAIN fs = DOMAIN fs0
    /\ \A p \in DOMAIN fs0 :
          (p.dir # "src/routes" \/ ~EndsInTs(p.name)) =>
                /\ p \notin Range(files)
                /\ Len(LogOf(p)) = 0
                /\ fs[p] = fs0[p]
    /\ \A p \in DOMAIN fs0 \ Range(files) :
          pc # "glob" => (Len(LogOf(p)) = 0 /\ fs[p] = fs0[p])

\* C9 as stated: in every run, each discovered file is read exactly once and
\* overwritten at most once, after its read; no file is created or deleted
\* and files not discovered are never read or written.
C9_LifecycleEveryRun ==
    /\ pc \in {"done", "aborted"} => \A p \in Range(files) : ReadsOf(p) = 1
    /\ LifecycleFrame

\* C9 amended: in every run each discovered file is read at most once, and
\* exactly once when the run completes; it is overwritten at most once,
\* after its read; no file is created or deleted and files not discovered
\* are never read or written.
C9_Lifecycle ==
    /\ \A p \in Range(files) : ReadsOf(p) <= 1
    /\ pc = "done" => \A p \in Range(files) : ReadsOf(p) = 1
    /\ LifecycleFrame

\* C9 witness: a completed run that read both route files once and
\* rewrote one of them.
C9_Witness ==
    /\ pc = "done"
    /\ Len(files) = 2
    /\ \A p \in Range(files) : ReadsOf(p) = 1
    /\ \E p \in Range(files) : PosOf(p, "write") > PosOf(p, "read")

\* C10: whatever the order of the files, a completed run leaves every
\* discovered file with fix_id_parsing of the text it held at start.
C10_OrderIndependent ==
    pc = "done" => \A p \in Range(files) : fs[p] = fix_id_parsing(fs0[p])

\* what a completed run does leave in a file that held b: b itself when
\* fix_id_parsing does not change the text read from it, else the changed
\* text as text mode writes it
FinalText(b, sep) ==
    LET t == TextRead(b)
    IN  IF fix_id_parsing(t) = t THEN b ELSE TextWrite(fix_id_parsing(t), sep)

\* the order of the files does not show in the final file system
FinalStateByFile ==
    pc = "done" => \A p \in DOMAIN fs0 :
        fs[p] = IF globMatch(p) THEN FinalText(fs0[p], linesep) ELSE fs0[p]

====
